---- MODULE Spec2Model ----
(***************************************************************************)
(* Model of terraform-provider-rems-content: the form resource             *)
(* (internal/provider/resources/form_resource.go), the provider functions  *)
(* form_field_header and form_field_label (internal/provider/functions)    *)
(* and the provider that registers them.                                   *)
(*                                                                         *)
(* Terraform attribute values are modelled with their three states (null,  *)
(* unknown, known); the REMS server is modelled by the responses it may    *)
(* give to the one request the provider issues, and by the form it keeps   *)
(* for the resource after a successful create.                             *)
(***************************************************************************)
EXTENDS Integers, Sequences, FiniteSets, TLC

VARIABLES
    client,   \* FormResource.client: "nil" or the name of an API client
    state,    \* the Terraform state of the form resource
    rems,     \* the form REMS holds for the resource (created by its last successful create)
    last,     \* what the last resource operation did (request, response, diagnostics)
    fn,       \* the last provider function run: arguments, error, result
    fnPrev,   \* the provider function run before it
    prov,     \* what the provider has answered: its names, its registrations, its Configure
    flight    \* the Create that waits for its request: its context, the request, the answer

vars == <<client, state, rems, last, fn, fnPrev, prov, flight>>
resourceVars == <<client, state, rems, last>>

(***************************************************************************)
(* Bounds of the model.                                                    *)
(***************************************************************************)
MaxFields == 2    \* longest `fields` list of a plan
MaxFormId == 2    \* REMS answers a create with an id in 1..MaxFormId

(***************************************************************************)
(* attr.Value of the plugin framework: types.String, types.Bool,           *)
(* types.Map (of strings) and types.Int64, each null, unknown or known.    *)
(* A map value is a set of <<key, value>> pairs.                           *)
(***************************************************************************)
StringNull == [ty |-> "string", st |-> "null", v |-> ""]
StringUnknown == [ty |-> "string", st |-> "unknown", v |-> ""]
StringValue(s) == [ty |-> "string", st |-> "known", v |-> s]

BoolNull == [ty |-> "bool", st |-> "null", v |-> FALSE]
BoolUnknown == [ty |-> "bool", st |-> "unknown", v |-> FALSE]
BoolValue(b) == [ty |-> "bool", st |-> "known", v |-> b]

MapNull == [ty |-> "map(string)", st |-> "null", v |-> {}]
MapUnknown == [ty |-> "map(string)", st |-> "unknown", v |-> {}]
MapValue(m) == [ty |-> "map(string)", st |-> "known", v |-> m]

Int64Null == [ty |-> "int64", st |-> "null", v |-> 0]
Int64Unknown == [ty |-> "int64", st |-> "unknown", v |-> 0]
Int64Value(n) == [ty |-> "int64", st |-> "known", v |-> n]

IsNull(x) == x.st = "null"
IsUnknown(x) == x.st = "unknown"
\* ValueString / ValueBool: the known value, the zero value for null and unknown
ValueString(x) == IF x.st = "known" THEN x.v ELSE ""
ValueBool(x) == IF x.st = "known" THEN x.v ELSE FALSE
\* Map.ElementsAs into a map[string]string
ElementsAsMap(x) == IF x.st = "known" THEN x.v ELSE {}

(***************************************************************************)
(* Provider functions.                                                     *)
(*                                                                         *)
(* A Go value handed to Result.Set is a record [go, v]: its Go type and    *)
(* its value.  An object is a function from attribute names to attr.Value. *)
(***************************************************************************)
GoString(s) == [go |-> "string", v |-> s]
GoBool(b) == [go |-> "bool", v |-> b]
GoMap(m) == [go |-> "map[string]string", v |-> m]

NoObject == [a \in {} |-> StringNull]
NoArgs == [a \in {} |-> GoString("")]

\* the framework type a Go value of each kind converts to
TypeOfGo(g) ==
    CASE g.go = "string" -> "string"
      [] g.go = "bool" -> "bool"
      [] g.go = "map[string]string" -> "map(string)"

\* Result.Set: a Go struct becomes an object of the function's return type;
\* a struct whose tagged fields are not exactly the attributes of that type,
\* each of the matching Go type, is an error and no result is set.
ResultSet(returnTypes, result) ==
    IF /\ DOMAIN result = DOMAIN returnTypes
       /\ \A a \in DOMAIN result : TypeOfGo(result[a]) = returnTypes[a]
    THEN [ok |-> TRUE,
          obj |-> [a \in DOMAIN result |->
                      [ty |-> returnTypes[a], st |-> "known", v |-> result[a].v]]]
    ELSE [ok |-> FALSE, obj |-> NoObject]

\* FormFieldHeaderFunction.Definition: Return.AttributeTypes
HeaderReturnTypes ==
    [id |-> "string", title |-> "map(string)", type |-> "string", optional |-> "bool"]

\* FormFieldLabelFunction.Definition: Return.AttributeTypes
LabelReturnTypes ==
    [title |-> "string", type |-> "string", optional |-> "bool"]

\* a faulty variant of FormFieldHeaderResult: the type of another field template
FormFieldHeaderResultAsLabel(idData, titleData) ==
    [id |-> GoString(idData), title |-> GoMap(titleData),
     type |-> GoString("label"), optional |-> GoBool(FALSE)]

\* FormFieldHeaderFunction.Run: the result struct (Optional keeps its zero value)
FormFieldHeaderResult(idData, titleData) ==
    [id |-> GoString(idData), title |-> GoMap(titleData),
     type |-> GoString("header"), optional |-> GoBool(FALSE)]

\* a faulty variant of FormFieldLabelResult: the type of another field template
FormFieldLabelResultAsHeader(functionData) ==
    [title |-> GoString(functionData), type |-> GoString("header"),
     optional |-> GoBool(FALSE)]

\* FormFieldLabelFunction.Run: the result struct (Optional keeps its zero value)
FormFieldLabelResult(functionData) ==
    [title |-> GoString(functionData), type |-> GoString("label"),
     optional |-> GoBool(FALSE)]

\* what a whole run of form_field_header answers for decoded arguments
FormFieldHeaderRun(idData, titleData) ==
    ResultSet(HeaderReturnTypes, FormFieldHeaderResult(idData, titleData))

\* what a whole run of form_field_label answers for a decoded argument
FormFieldLabelRun(functionData) ==
    ResultSet(LabelReturnTypes, FormFieldLabelResult(functionData))

\* the arguments Terraform passes: known, non-null values of the parameter types
ArgStrings == {"", "xyz_applicant", "xyz_purpose"}
ArgMaps ==
    {{}, {<<"en", "Applicant">>}, {<<"en", "Purpose">>},
     {<<"en", "Purpose">>, <<"fi", "Tarkoitus">>}}

\* no function has run; `during` is r.client of the form resource at the time
\* of a run, kept to tell runs in different states of the provider apart
NoFn == [name |-> "none", decoded |-> FALSE, args |-> NoArgs,
         error |-> FALSE, set |-> FALSE, result |-> NoObject, during |-> "nil"]

\* a faulty variant of FnArgumentError: Run goes on after the error, with the
\* zero values of its arguments
FnArgumentErrorIgnored(name, args) ==
    LET r == IF name = "form_field_header"
             THEN FormFieldHeaderRun("", {})
             ELSE FormFieldLabelRun("")
    IN [name |-> name, decoded |-> FALSE, args |-> args,
        error |-> ~r.ok, set |-> r.ok, result |-> r.obj, during |-> client]

\* a run whose req.Arguments.Get failed: the error is returned, nothing is set
FnArgumentError(name, args) ==
    [name |-> name, decoded |-> FALSE, args |-> args,
     error |-> TRUE, set |-> FALSE, result |-> NoObject, during |-> client]

\* a run whose arguments were read: the error and the result of Result.Set
FnRan(name, args, r) ==
    [name |-> name, decoded |-> TRUE, args |-> args,
     error |-> ~r.ok, set |-> r.ok, result |-> r.obj, during |-> client]

\* a faulty variant of RunFormFieldHeader: the template is fetched from REMS
\* through r.client, so a request is issued, and with no client there is no
\* result
RunFormFieldHeaderViaRems ==
    /\ \E decoded \in BOOLEAN, idData \in ArgStrings, titleData \in ArgMaps :
          LET args == [field_id |-> GoString(idData), title |-> GoMap(titleData)] IN
          fn' = IF ~decoded
                THEN FnArgumentError("form_field_header", args)
                ELSE FnRan("form_field_header", args,
                           IF client = "nil" THEN [ok |-> FALSE, obj |-> NoObject]
                           ELSE FormFieldHeaderRun(idData, titleData))
    /\ fnPrev' = fn
    /\ last' = [last EXCEPT !.requests =
                   <<[endpoint |-> "ApiFormsGet", via |-> client, body |-> rems.form]>>]
    /\ UNCHANGED <<client, state, rems, prov, flight>>

\* FormFieldHeaderFunction.Run
RunFormFieldHeader ==
    /\ \E decoded \in BOOLEAN, idData \in ArgStrings, titleData \in ArgMaps :
          LET args == [field_id |-> GoString(idData), title |-> GoMap(titleData)] IN
          fn' = IF ~decoded
                THEN FnArgumentError("form_field_header", args)
                ELSE FnRan("form_field_header", args,
                           FormFieldHeaderRun(idData, titleData))
    /\ fnPrev' = fn
    /\ UNCHANGED <<resourceVars, prov, flight>>

\* FormFieldLabelFunction.Run
RunFormFieldLabel ==
    /\ \E decoded \in BOOLEAN, functionData \in ArgStrings :
          LET args == [title |-> GoString(functionData)] IN
          fn' = IF ~decoded
                THEN FnArgumentError("form_field_label", args)
                ELSE FnRan("form_field_label", args, FormFieldLabelRun(functionData))
    /\ fnPrev' = fn
    /\ UNCHANGED <<resourceVars, prov, flight>>

(***************************************************************************)
(* The form resource: schema and models.                                   *)
(***************************************************************************)
\* fieldSchema: the attributes of one element of `fields` and their types
FieldAttrTypes ==
    [id |-> "string", type |-> "string", title |-> "map(string)",
     info |-> "string", placeholder |-> "string", optional |-> "bool"]

NullOfType(ty) ==
    CASE ty = "string" -> StringNull
      [] ty = "bool" -> BoolNull
      [] ty = "map(string)" -> MapNull

\* an object can be an element of `fields` when each of its attributes is an
\* attribute of fieldSchema, of the same type
ConformsToField(obj) ==
    \A a \in DOMAIN obj : a \in DOMAIN FieldAttrTypes /\ obj[a].ty = FieldAttrTypes[a]

\* such an object as an element of `fields` (FormFieldResourceModel): the
\* optional attributes it does not give are null
AsFieldElement(obj) ==
    [a \in DOMAIN FieldAttrTypes |->
        IF a \in DOMAIN obj THEN obj[a] ELSE NullOfType(FieldAttrTypes[a])]

\* FormResourceModel, as null as it is before Plan.Get / State.Get fills it
NullModel ==
    [id |-> Int64Null, organization_id |-> StringNull, title |-> StringNull,
     fields |-> <<>>]

NoState == [exists |-> FALSE, model |-> NullModel]

(***************************************************************************)
(* The plans Terraform may hand to the resource.                           *)
(***************************************************************************)
\* the calls of form_field_header a configuration makes (README example)
HeaderCalls ==
    {<<"xyz_applicant", {<<"en", "Applicant">>}>>,
     <<"xyz_purpose", {<<"en", "Purpose">>}>>}

HeaderFields == {AsFieldElement(FormFieldHeaderRun(c[1], c[2]).obj) : c \in HeaderCalls}

\* fields written out in the configuration
WrittenFields ==
    { [id |-> StringNull, type |-> StringValue("text"),
       title |-> MapValue({<<"en", "Name">>}),
       info |-> StringValue("i"), placeholder |-> StringValue("p"),
       optional |-> BoolValue(TRUE)],
      [id |-> StringUnknown, type |-> StringValue("text"),
       title |-> MapValue({<<"en", "Name">>}),
       info |-> StringNull, placeholder |-> StringNull,
       optional |-> BoolUnknown],
      [id |-> StringValue("f4"), type |-> StringValue("label"),
       title |-> MapNull,
       info |-> StringNull, placeholder |-> StringNull,
       optional |-> BoolNull],
      [id |-> StringValue("f5"), type |-> StringValue("label"),
       title |-> MapUnknown,
       info |-> StringNull, placeholder |-> StringNull,
       optional |-> BoolValue(FALSE)],
      [id |-> StringValue("f6"), type |-> StringValue("date"),
       title |-> MapValue({<<"en", "When">>, <<"fi", "Milloin">>}),
       info |-> StringNull, placeholder |-> StringNull,
       optional |-> BoolNull] }

FieldPool == HeaderFields \cup WrittenFields

FieldLists == UNION {[1..n -> FieldPool] : n \in 0..MaxFields}

FormHeads ==
    { [organization_id |-> StringValue("Our Organisation"),
       title |-> StringValue("Access to XYZ data")],
      [organization_id |-> StringValue("Other"), title |-> StringNull] }

\* the id of a form is computed: unknown in the plan of a create
CreatePlans ==
    { [id |-> Int64Unknown, organization_id |-> h.organization_id,
       title |-> h.title, fields |-> f] : h \in FormHeads, f \in FieldLists }

\* the plans of a resource followed through create, read, update and delete:
\* a field built by form_field_header and a written field that leaves its
\* id to REMS
LifecycleFields ==
    {f \in FieldPool : \/ f.id = StringValue("xyz_applicant")
                       \/ IsNull(f.id)}

LifecyclePlans ==
    {p \in CreatePlans : \A i \in 1..Len(p.fields) : p.fields[i] \in LifecycleFields}

\* a faulty variant of UpdatePlans: id is left unknown, as a computed attribute
\* with no plan modifier is
UpdatePlansIdUnknown(prior) == { [p EXCEPT !.id = Int64Unknown] : p \in LifecyclePlans }

\* id has the plan modifier UseStateForUnknown: the plan of an update carries
\* the id of the prior state
UpdatePlans(prior) == { [p EXCEPT !.id = prior.id] : p \in LifecyclePlans }

(***************************************************************************)
(* FormResource.Create: the command sent to REMS.                          *)
(***************************************************************************)
\* a faulty variant of HasTitle: an unknown title is not looked for
HasTitleUnlessNull(modelFieldValue) == ~IsNull(modelFieldValue.title)

\* the loop's condition: the field's title is neither null nor unknown
HasTitle(modelFieldValue) ==
    ~IsNull(modelFieldValue.title) /\ ~IsUnknown(modelFieldValue.title)

\* a faulty variant of NewField: SetFieldId is called whether or not the id is null
NewFieldAlwaysWithId(modelFieldValue) ==
    [fieldTitle |-> ElementsAsMap(modelFieldValue.title),
     fieldType |-> ValueString(modelFieldValue.type),
     fieldOptional |-> ValueBool(modelFieldValue.optional),
     fieldId |-> [set |-> TRUE, v |-> ValueString(modelFieldValue.id)]]

\* a faulty variant of NewField: optional is sent as whether the attribute is set
NewFieldOptionalWhenSet(modelFieldValue) ==
    [fieldTitle |-> ElementsAsMap(modelFieldValue.title),
     fieldType |-> ValueString(modelFieldValue.type),
     fieldOptional |-> ~IsNull(modelFieldValue.optional),
     fieldId |-> IF ~IsNull(modelFieldValue.id)
                 THEN [set |-> TRUE, v |-> ValueString(modelFieldValue.id)]
                 ELSE [set |-> FALSE, v |-> ""]]

\* a faulty variant of NewField: the info of the field is sent with the template
NewFieldWithInfo(modelFieldValue) ==
    [fieldTitle |-> ElementsAsMap(modelFieldValue.title),
     fieldType |-> ValueString(modelFieldValue.type),
     fieldOptional |-> ValueBool(modelFieldValue.optional),
     fieldInfo |-> ValueString(modelFieldValue.info),
     fieldId |-> IF ~IsNull(modelFieldValue.id)
                 THEN [set |-> TRUE, v |-> ValueString(modelFieldValue.id)]
                 ELSE [set |-> FALSE, v |-> ""]]

\* NewNewFieldTemplate(titleMap, type, optional), then SetFieldId unless the id is null
NewField(modelFieldValue) ==
    [fieldTitle |-> ElementsAsMap(modelFieldValue.title),
     fieldType |-> ValueString(modelFieldValue.type),
     fieldOptional |-> ValueBool(modelFieldValue.optional),
     fieldId |-> IF ~IsNull(modelFieldValue.id)
                 THEN [set |-> TRUE, v |-> ValueString(modelFieldValue.id)]
                 ELSE [set |-> FALSE, v |-> ""]]

RECURSIVE NewFieldsPrepending(_)
\* a faulty variant of NewFields: each template is put in front of those before it
NewFieldsPrepending(modelFields) ==
    IF modelFields = <<>> THEN <<>>
    ELSE IF HasTitle(Head(modelFields))
         THEN NewFieldsPrepending(Tail(modelFields)) \o <<NewField(Head(modelFields))>>
         ELSE NewFieldsPrepending(Tail(modelFields))

RECURSIVE NewFields(_)
\* the loop over modelFields, appending one template per field with a title
NewFields(modelFields) ==
    IF modelFields = <<>> THEN <<>>
    ELSE IF HasTitle(Head(modelFields))
         THEN <<NewField(Head(modelFields))>> \o NewFields(Tail(modelFields))
         ELSE NewFields(Tail(modelFields))

\* a faulty variant of CreateFormCommand: a null title leaves the form title unset
CreateFormCommandWithoutNilTitle(resourceModel) ==
    [organization |-> [organizationId |-> ValueString(resourceModel.organization_id)],
     formTitle |-> IF IsNull(resourceModel.title)
                   THEN [set |-> FALSE, nil |-> FALSE, v |-> ""]
                   ELSE [set |-> TRUE, nil |-> FALSE, v |-> ValueString(resourceModel.title)],
     formFields |-> [set |-> TRUE, v |-> NewFields(resourceModel.fields)]]

\* formConfig when it is sent: organization, form title (nil for a null
\* title), form fields
CreateFormCommand(resourceModel) ==
    [organization |-> [organizationId |-> ValueString(resourceModel.organization_id)],
     formTitle |-> IF IsNull(resourceModel.title)
                   THEN [set |-> TRUE, nil |-> TRUE, v |-> ""]
                   ELSE [set |-> TRUE, nil |-> FALSE, v |-> ValueString(resourceModel.title)],
     formFields |-> [set |-> TRUE, v |-> NewFields(resourceModel.fields)]]

\* formConfig as NewCreateFormCommandWithDefaults leaves it
DefaultCommand ==
    [organization |-> [organizationId |-> ""],
     formTitle |-> [set |-> FALSE, nil |-> FALSE, v |-> ""],
     formFields |-> [set |-> FALSE, v |-> <<>>]]

\* a faulty variant of CreateSucceeded: the Success flag of the result is not looked at
CreateSucceededUnchecked(createResult) == createResult.kind # "error"

\* Create goes on to write state when createErr is nil and createResult.Success holds
CreateSucceeded(createResult) == createResult.kind = "success"

\* a faulty variant of CreatedModel: the id of the result is not copied into the model
CreatedModelWithoutId(resourceModel, createResult) == resourceModel

\* the model saved into state after a successful create
CreatedModel(resourceModel, createResult) ==
    [resourceModel EXCEPT !.id = Int64Value(createResult.id)]

(***************************************************************************)
(* REMS: its answers to a create, and the form it keeps.                   *)
(***************************************************************************)
FormIds == 1..MaxFormId

NoResponse == [kind |-> "none", id |-> 0]

\* createErr # nil; createResult.Success false; createResult.Success with an id
ApiResponses ==
    {[kind |-> "error", id |-> 0], [kind |-> "failure", id |-> 0]}
        \cup {[kind |-> "success", id |-> n] : n \in FormIds}

NoForm == [exists |-> FALSE, id |-> 0, form |-> DefaultCommand]

(***************************************************************************)
(* The record of one resource operation.                                   *)
(***************************************************************************)
NoOp ==
    [op |-> "none", providerData |-> "n/a", importId |-> "", decode |-> "none",
     plan |-> NullModel,
     requests |-> <<>>, response |-> NoResponse,
     diagError |-> FALSE, stateSet |-> FALSE, panic |-> FALSE,
     ctx |-> "live", cancelled |-> FALSE]

\* where decoding may fail in Create: Plan.Get, Fields.ElementsAs, Title.ElementsAs
DecodeOutcomes == {"none", "plan", "fields", "title"}

\* req.ProviderData: nil, a value of another type, or one of two API clients
ProviderDataKinds == {"nil", "other", "client", "client2"}

(***************************************************************************)
(* The provider: what it has answered so far.                              *)
(***************************************************************************)
\* RemsContentProvider.Metadata: resp.TypeName
ProviderTypeName == "remscontent"

\* a faulty variant of FormTypeName: the separator is left out
FormTypeNameUnseparated(providerTypeName) == providerTypeName \o "form"

\* FormResource.Metadata: resp.TypeName
FormTypeName(providerTypeName) == providerTypeName \o "_form"

\* RemsContentProvider.Functions: the constructors it returns, in order
Functions == <<"NewFormFieldHeaderFunction", "NewFormFieldLabelFunction">>

\* the name each function gives in its Metadata
FunctionName(constructor) ==
    CASE constructor = "NewFormFieldHeaderFunction" -> "form_field_header"
      [] constructor = "NewFormFieldLabelFunction" -> "form_field_label"

\* a faulty variant of Resources: one constructor is listed twice, one not at all
ResourcesWithCategoryTwice ==
    <<"NewCatalogueItemResource", "NewCategoryResource", "NewFormResource",
      "NewCategoryResource", "NewResourceResource", "NewWorkflowResource">>

\* RemsContentProvider.Resources: the constructors it returns, in order
Resources ==
    <<"NewCatalogueItemResource", "NewCategoryResource", "NewFormResource",
      "NewLicenseResource", "NewResourceResource", "NewWorkflowResource">>

\* RemsContentProviderModel, before Config.Get fills it
NullConfig == [endpoint |-> StringNull, api_user |-> StringNull, api_key |-> StringNull]

\* the provider configurations: endpoint, api_user and api_key are required
\* strings; the endpoint may still be unknown when the provider is configured
ProviderConfigs ==
    { [endpoint |-> e, api_user |-> u, api_key |-> k] :
        e \in {StringValue("rems.somewhere.com"), StringValue("rems.example.org"),
               StringUnknown},
        u \in {StringValue("robot"), StringValue("owner")},
        k \in {StringValue("key-1"), StringValue("key-2")} }

\* a faulty variant of ClientConfiguration: the two credentials change places
ClientConfigurationSwapped(data) ==
    [host |-> ValueString(data.endpoint),
     scheme |-> "https",
     defaultHeader |-> {<<"x-rems-user-id", ValueString(data.api_key)>>,
                        <<"x-rems-api-key", ValueString(data.api_user)>>,
                        <<"Content-Type", "application/json">>}]

\* RemsContentProvider.Configure: cfg, the configuration of the client
ClientConfiguration(data) ==
    [host |-> ValueString(data.endpoint),
     scheme |-> "https",
     defaultHeader |-> {<<"x-rems-user-id", ValueString(data.api_user)>>,
                        <<"x-rems-api-key", ValueString(data.api_key)>>,
                        <<"Content-Type", "application/json">>}]

NoClientConfiguration == [host |-> "", scheme |-> "", defaultHeader |-> {}]

\* resp.ResourceData / resp.DataSourceData left unset
NoData == [set |-> FALSE, ptr |-> 0, cfg |-> NoClientConfiguration]

\* the *remsclient.APIClient that NewAPIClient(cfg) returns: ptr tells one
\* client built in a call of Configure from another
APIClient(ptr, cfg) == [set |-> TRUE, ptr |-> ptr, cfg |-> cfg]

NoConfigure ==
    [called |-> FALSE, config |-> NullConfig, diagError |-> FALSE,
     resourceData |-> NoData, dataSourceData |-> NoData]

NoProvider ==
    [typeName |-> "", formTypeName |-> "", functions |-> <<>>, resources |-> <<>>,
     configure |-> NoConfigure]

\* RemsContentProvider.Metadata
ProviderMetadata ==
    /\ prov' = [prov EXCEPT !.typeName = ProviderTypeName]
    /\ UNCHANGED <<resourceVars, fn, fnPrev, flight>>

\* FormResource.Metadata, called with the type name the provider gave
FormMetadata ==
    /\ prov.typeName # ""
    /\ prov' = [prov EXCEPT !.formTypeName = FormTypeName(prov.typeName)]
    /\ UNCHANGED <<resourceVars, fn, fnPrev, flight>>

\* RemsContentProvider.Functions, and the Metadata of each function it returns
ProviderFunctions ==
    /\ prov' = [prov EXCEPT !.functions =
                   [i \in 1..Len(Functions) |-> FunctionName(Functions[i])]]
    /\ UNCHANGED <<resourceVars, fn, fnPrev, flight>>

\* RemsContentProvider.Resources
ProviderResources ==
    /\ prov' = [prov EXCEPT !.resources = Resources]
    /\ UNCHANGED <<resourceVars, fn, fnPrev, flight>>

\* a faulty variant of ConfigureReturnedEarly: Configure goes on after the
\* error, with the model as null as Config.Get left it
ConfigureWentOn ==
    [called |-> TRUE, config |-> NullConfig, diagError |-> TRUE,
     resourceData |-> APIClient(1, ClientConfiguration(NullConfig)),
     dataSourceData |-> APIClient(1, ClientConfiguration(NullConfig))]

\* what Configure leaves when Config.Get ends with an error diagnostic: it
\* returns before a client is built
ConfigureReturnedEarly ==
    [called |-> TRUE, config |-> NullConfig, diagError |-> TRUE,
     resourceData |-> NoData, dataSourceData |-> NoData]

\* RemsContentProvider.Configure
ProviderConfigure ==
    /\ \* Config.Get fails: nothing is built, nothing is handed out
       \/ prov' = [prov EXCEPT !.configure = ConfigureReturnedEarly]
       \* one client is built and given to data sources and to resources
       \/ \E data \in ProviderConfigs :
             LET apiClient == APIClient(1, ClientConfiguration(data)) IN
             prov' = [prov EXCEPT !.configure =
                         [called |-> TRUE, config |-> data, diagError |-> FALSE,
                          resourceData |-> apiClient, dataSourceData |-> apiClient]]
    /\ UNCHANGED <<resourceVars, fn, fnPrev, flight>>

(***************************************************************************)
(* The operations of the form resource.                                    *)
(***************************************************************************)
\* no Create is waiting for its request
NoFlight ==
    [phase |-> "idle", ctx |-> "live", requestCtx |-> "none", decode |-> "none",
     plan |-> NullModel,
     request |-> [endpoint |-> "", via |-> "nil", body |-> DefaultCommand],
     response |-> NoResponse]

Init ==
    /\ client = "nil"
    /\ state = NoState
    /\ rems = NoForm
    /\ last = NoOp
    /\ fn = NoFn
    /\ fnPrev = NoFn
    /\ prov = NoProvider
    /\ flight = NoFlight

\* a faulty variant of ConfiguredClient: nil provider data clears the client
ConfiguredClientCleared(providerData) ==
    IF providerData = "other" THEN client
    ELSE IF providerData = "nil" THEN "nil" ELSE providerData

\* FormResource.Configure: r.client after the call; it is assigned only when
\* the provider data is an API client
ConfiguredClient(providerData) ==
    IF providerData \in {"nil", "other"} THEN client ELSE providerData

\* FormResource.Configure: the error diagnostic, for provider data that is
\* neither nil nor an API client
ConfigureError(providerData) == providerData = "other"

\* FormResource.Configure
Configure ==
    /\ \E providerData \in ProviderDataKinds :
          /\ last' = [NoOp EXCEPT !.op = "Configure", !.providerData = providerData,
                                  !.diagError = ConfigureError(providerData)]
          /\ client' = ConfiguredClient(providerData)
    /\ UNCHANGED <<state, rems, fn, fnPrev, prov, flight>>

\* the one request of Create: the forms-create endpoint, through r.client
CreateRequest(resourceModel) ==
    [endpoint |-> "ApiFormsCreatePost", via |-> client,
     body |-> CreateFormCommand(resourceModel)]

\* a faulty variant of Aborts: only the error of Plan.Get makes Create return
AbortsOnPlanOnly(decode) == decode = "plan"

\* FormResource.Create returns as soon as a decoding step has left an error
\* diagnostic: after Plan.Get, after Fields.ElementsAs, after Title.ElementsAs
Aborts(decode) == decode # "none"

\* Title.ElementsAs is called, and so can fail, only for a field that has a title
CanFail(resourceModel, decode) ==
    decode = "title" =>
        \E i \in 1..Len(resourceModel.fields) : HasTitle(resourceModel.fields[i])

\* a faulty variant of RequestContext: the request is issued under ctx
RequestContextOfCreate == "ctx"

\* the context of the request: ApiFormsCreatePost(context.Background())
RequestContext == "background"

\* a request is given up when its context is cancelled; the background
\* context is never cancelled
RequestCancelled(f) == f.requestCtx = "ctx" /\ f.ctx = "cancelled"

\* createErr # nil for a request that was given up
CancelledResponse == [kind |-> "error", id |-> 0]

\* FormResource.Create up to Execute(), called by Terraform for a resource
\* with no state, with a plan out of `plans`: it ends there when decoding
\* fails or r.client is nil; else the request is sent and Create waits
CreateFrom(plans) ==
    /\ ~state.exists
    /\ flight.phase = "idle"
    /\ \* Plan.Get fails: the model is not filled, nothing else happens
       \/ /\ Aborts("plan")
          /\ last' = [NoOp EXCEPT !.op = "Create", !.decode = "plan",
                                  !.diagError = TRUE]
          /\ UNCHANGED flight
       \* Fields.ElementsAs or Title.ElementsAs fails
       \/ \E resourceModel \in plans, decode \in {"fields", "title"} :
             /\ CanFail(resourceModel, decode)
             /\ Aborts(decode)
             /\ last' = [NoOp EXCEPT !.op = "Create", !.decode = decode,
                                     !.plan = resourceModel, !.diagError = TRUE]
             /\ UNCHANGED flight
       \* r.client is nil: r.client.FormsAPI panics
       \/ \E resourceModel \in plans, decode \in DecodeOutcomes \ {"plan"} :
             /\ CanFail(resourceModel, decode)
             /\ ~Aborts(decode)
             /\ client = "nil"
             /\ last' = [NoOp EXCEPT !.op = "Create", !.decode = decode,
                                     !.plan = resourceModel,
                                     !.diagError = (decode # "none"),
                                     !.panic = TRUE]
             /\ UNCHANGED flight
       \* the command is built and the request is sent
       \/ \E resourceModel \in plans, decode \in DecodeOutcomes \ {"plan"} :
             /\ CanFail(resourceModel, decode)
             /\ ~Aborts(decode)
             /\ client # "nil"
             /\ last' = [NoOp EXCEPT !.op = "Create", !.decode = decode,
                                     !.plan = resourceModel,
                                     !.requests = <<CreateRequest(resourceModel)>>,
                                     !.diagError = (decode # "none")]
             /\ flight' = [phase |-> "sent", ctx |-> "live",
                           requestCtx |-> RequestContext,
                           decode |-> decode, plan |-> resourceModel,
                           request |-> CreateRequest(resourceModel),
                           response |-> NoResponse]
    /\ UNCHANGED <<client, state, rems, fn, fnPrev, prov>>

\* REMS, at the other end of the request: it answers, and when it answers
\* with success it holds the form of the command; a request that was given
\* up gets no answer
RemsHandlesCreate ==
    /\ flight.phase = "sent"
    /\ ~RequestCancelled(flight)
    /\ \E createResult \in ApiResponses :
          /\ flight' = [flight EXCEPT !.phase = "answered", !.response = createResult]
          /\ rems' = IF createResult.kind = "success"
                     THEN [exists |-> TRUE, id |-> createResult.id,
                           form |-> flight.request.body]
                     ELSE rems
    /\ UNCHANGED <<client, state, last, fn, fnPrev, prov>>

\* Terraform cancels the context it passed to Create (an interrupt, a timeout)
\* while Create waits
CancelContext ==
    /\ flight.phase \in {"sent", "answered"}
    /\ flight.ctx = "live"
    /\ flight' = [flight EXCEPT !.ctx = "cancelled"]
    /\ UNCHANGED <<client, state, rems, last, fn, fnPrev, prov>>

\* what Execute() returns: the error of a request that was given up, else
\* the answer of REMS once it is there
ReturnedResponses(f) ==
    IF RequestCancelled(f) THEN {CancelledResponse}
    ELSE IF f.phase = "answered" THEN {f.response} ELSE {}

\* FormResource.Create from the return of Execute() on: the error and Success
\* checks, the id of the result into the model, the model into state
CreateReturns ==
    /\ flight.phase \in {"sent", "answered"}
    /\ \E createResult \in ReturnedResponses(flight) :
          /\ last' = [NoOp EXCEPT !.op = "Create", !.decode = flight.decode,
                                  !.plan = flight.plan,
                                  !.requests = <<flight.request>>,
                                  !.response = createResult,
                                  !.diagError = \/ flight.decode # "none"
                                                \/ ~CreateSucceeded(createResult),
                                  !.stateSet = CreateSucceeded(createResult),
                                  !.ctx = flight.ctx,
                                  !.cancelled = RequestCancelled(flight)]
          /\ state' = IF CreateSucceeded(createResult)
                      THEN [exists |-> TRUE,
                            model |-> CreatedModel(flight.plan, createResult)]
                      ELSE state
    /\ flight' = NoFlight
    /\ UNCHANGED <<client, rems, fn, fnPrev, prov>>

\* Create within the life of a resource (create, read, update, delete)
Create == CreateFrom(LifecyclePlans)

\* Create with every shape of field list. Terraform calls Create for a
\* resource once in a run, not again right after it; a further Create would
\* depend on nothing the earlier one left behind and reach no other state
CreateAny == last.op # "Create" /\ CreateFrom(CreatePlans)

\* a faulty variant of ReadModel: the title is refreshed from the form REMS holds
ReadModelFromRems(data) ==
    [data EXCEPT !.title = IF rems.exists /\ ~rems.form.formTitle.nil
                           THEN StringValue(rems.form.formTitle.v)
                           ELSE StringNull]

\* FormResource.Read: the model saved into state is the model read from state
ReadModel(data) == data

\* FormResource.Read: the prior state is read and saved back
Read ==
    /\ state.exists
    /\ \E decoded \in BOOLEAN :
          \/ /\ ~decoded
             /\ last' = [NoOp EXCEPT !.op = "Read", !.decode = "state",
                                     !.diagError = TRUE]
             /\ UNCHANGED state
          \/ /\ decoded
             /\ last' = [NoOp EXCEPT !.op = "Read", !.plan = state.model,
                                     !.stateSet = TRUE]
             /\ state' = [exists |-> TRUE, model |-> ReadModel(state.model)]
    /\ UNCHANGED <<client, rems, fn, fnPrev, prov, flight>>

\* a faulty variant of UpdatedModel: the fields of the prior state are kept
UpdatedModelKeepingFields(data) == [data EXCEPT !.fields = state.model.fields]

\* FormResource.Update: the model saved into state is the model read from the plan
UpdatedModel(data) == data

\* FormResource.Update: the plan is read and saved into state
Update ==
    /\ state.exists
    /\ \* Plan.Get fails
       \/ /\ last' = [NoOp EXCEPT !.op = "Update", !.decode = "plan",
                                  !.diagError = TRUE]
          /\ UNCHANGED state
       \/ \E data \in UpdatePlans(state.model) :
             /\ last' = [NoOp EXCEPT !.op = "Update", !.plan = data,
                                     !.stateSet = TRUE]
             /\ state' = [exists |-> TRUE, model |-> UpdatedModel(data)]
    /\ UNCHANGED <<client, rems, fn, fnPrev, prov, flight>>

\* FormResource.Delete: the prior state is read; the framework removes the
\* resource from state when Delete returns without an error diagnostic
Delete ==
    /\ state.exists
    /\ \E decoded \in BOOLEAN :
          \/ /\ ~decoded
             /\ last' = [NoOp EXCEPT !.op = "Delete", !.decode = "state",
                                     !.diagError = TRUE]
             /\ UNCHANGED state
          \/ /\ decoded
             /\ last' = [NoOp EXCEPT !.op = "Delete", !.plan = state.model]
             /\ state' = NoState
    /\ UNCHANGED <<client, rems, fn, fnPrev, prov, flight>>

\* the identifiers `terraform import` is given: ids of forms, and a word
ImportIds == {"1", "2", "form"}

\* Schema: id is an Int64Attribute
IdAttributeType == NullModel.id.ty

\* State.SetAttribute(ctx, path, val) for a Go string val: the string becomes a
\* value of the attribute's type, which only a string attribute accepts
SetAttributeString(attributeType, val) ==
    [ok |-> attributeType = "string",
     value |-> StringValue(val)]

\* FormResource.ImportState: ImportStatePassthroughID sets the attribute at
\* path.Root("id") to req.ID; the imported state is kept unless there is an
\* error diagnostic
ImportState ==
    /\ ~state.exists
    /\ \E id \in ImportIds :
          LET set == SetAttributeString(IdAttributeType, id) IN
          /\ last' = [NoOp EXCEPT !.op = "ImportState", !.importId = id,
                                  !.diagError = ~set.ok, !.stateSet = set.ok]
          /\ state' = IF set.ok
                       THEN [exists |-> TRUE,
                             model |-> [NullModel EXCEPT !.id = set.value]]
                       ELSE state
    /\ UNCHANGED <<client, rems, fn, fnPrev, prov, flight>>

\* REMS is a service of its own: a form the provider created there is
\* removed by another of its clients; the resource is not told
FormRemovedFromRems ==
    /\ rems.exists
    /\ rems' = NoForm
    /\ last' = [NoOp EXCEPT !.op = "FormRemovedFromRems"]
    /\ UNCHANGED <<client, state, fn, fnPrev, prov, flight>>

Next ==
    \/ Configure \/ Create \/ RemsHandlesCreate \/ CreateReturns
    \/ Read \/ Update \/ Delete

Spec == Init /\ [][Next]_vars

\* the life of a resource that may be imported, while REMS is changed by others
NextDrift == Next \/ ImportState \/ FormRemovedFromRems

SpecDrift == Init /\ [][NextDrift]_vars

\* a create whose context may be cancelled while its request is on the way
NextInFlight ==
    Configure \/ Create \/ CancelContext \/ RemsHandlesCreate \/ CreateReturns

SpecInFlight == Init /\ [][NextInFlight]_vars

\* the create operation alone, over every plan
NextCreate == Configure \/ CreateAny \/ RemsHandlesCreate \/ CreateReturns

SpecCreate == Init /\ [][NextCreate]_vars

\* the provider functions, run while the resource is being configured
NextFunctions == RunFormFieldHeader \/ RunFormFieldLabel \/ Configure

SpecFunctions == Init /\ [][NextFunctions]_vars

\* the provider: its names, its registrations and its configuration
NextProvider ==
    \/ ProviderMetadata \/ FormMetadata \/ ProviderFunctions
    \/ ProviderResources \/ ProviderConfigure

SpecProvider == Init /\ [][NextProvider]_vars

(***************************************************************************)
(* Properties.                                                             *)
(***************************************************************************)
LifecycleOps == {"Create", "Read", "Update", "Delete"}

\* the last operation ran to its end with nothing failing to decode
Completed == last.op \in LifecycleOps /\ last.decode = "none" /\ ~last.panic

\* C1: every lifecycle operation of the form resource that runs to completion
\* without a decode error has issued at least one request to REMS.
C1_EveryOperationCallsRems == Completed => Len(last.requests) >= 1

\* the form REMS holds has the organization, title and fields of a model
FormHasModel(form, model) ==
    /\ form.organization.organizationId = ValueString(model.organization_id)
    /\ form.formTitle.nil = IsNull(model.title)
    /\ form.formTitle.v = ValueString(model.title)
    /\ Len(form.formFields.v) = Len(model.fields)
    /\ \A i \in 1..Len(model.fields) :
          i <= Len(form.formFields.v) =>
             /\ model.fields[i].title = MapValue(form.formFields.v[i].fieldTitle)
             /\ form.formFields.v[i].fieldType = ValueString(model.fields[i].type)
             /\ form.formFields.v[i].fieldOptional = ValueBool(model.fields[i].optional)
             /\ form.formFields.v[i].fieldId.set = ~IsNull(model.fields[i].id)
             /\ form.formFields.v[i].fieldId.v = ValueString(model.fields[i].id)

\* C2: after a successful Create and any successful Updates and Reads, the
\* form REMS holds under the id of the state has the organization, title
\* and fields of the state.
C2_RemsFollowsState ==
    (state.exists /\ last.op \in {"Create", "Read", "Update"} /\ last.stateSet) =>
        /\ rems.exists
        /\ state.model.id = Int64Value(rems.id)
        /\ FormHasModel(rems.form, state.model)

\* the last operation was a Create that REMS answered with success
CreateSuccess == last.op = "Create" /\ last.response.kind = "success"

\* C3: a successful Create issues exactly one request, to the forms-create
\* endpoint, and writes a state whose id is the id of the response and whose
\* organization_id, title and fields are those of the plan.
C3_CreateCopiesResponseAndPlan ==
    CreateSuccess =>
        /\ Len(last.requests) = 1
        /\ last.requests[1].endpoint = "ApiFormsCreatePost"
        /\ last.stateSet /\ ~last.diagError
        /\ state.exists
        /\ state.model.id = Int64Value(last.response.id)
        /\ state.model.organization_id = last.plan.organization_id
        /\ state.model.title = last.plan.title
        /\ state.model.fields = last.plan.fields

C3_Witness ==
    /\ CreateSuccess
    /\ Len(last.plan.fields) = 2
    /\ last.plan.fields[1] # last.plan.fields[2]
    /\ last.response.id = 2

\* the last operation was a Create whose request failed: a transport or API
\* error, or a result whose Success flag is false
CreateApiFailure == last.op = "Create" /\ last.response.kind \in {"error", "failure"}

\* C4: a Create whose request fails adds an error diagnostic, writes no
\* state (no id is recorded) and sends the request once only.
C4_CreateFailurePropagates ==
    CreateApiFailure =>
        /\ last.diagError
        /\ ~last.stateSet
        /\ ~state.exists
        /\ Len(last.requests) = 1

C4_Witness ==
    /\ CreateApiFailure
    /\ last.response.kind = "failure"
    /\ Len(last.plan.fields) > 0

\* two runs in a row of the same function on the same arguments
SameRunTwice ==
    /\ fn.name # "none"
    /\ fn.name = fnPrev.name
    /\ fn.decoded = fnPrev.decoded
    /\ fn.args = fnPrev.args

\* two runs on equal arguments answer alike, in whatever state of the
\* provider each of them ran
C5_SameArgsSameResult ==
    SameRunTwice => (fn.result = fnPrev.result /\ fn.set = fnPrev.set /\ fn.error = fnPrev.error)

\* a step in which a provider function ran leaves the client, the state, REMS
\* and the record of requests as they were
C5_RunTouchesNothing ==
    (fn' # fn \/ fnPrev' # fnPrev) => UNCHANGED <<resourceVars, prov, flight>>

C6_ResultIsAField == fn.set => ConformsToField(fn.result)

\* the last operation was a Create that sent its request
CreateSent == last.op = "Create" /\ Len(last.requests) = 1

SentFields == last.requests[1].body.formFields.v

\* the field that form_field_header(field_id, title) gives to `fields`
HeaderField(call) == AsFieldElement(FormFieldHeaderRun(call[1], call[2]).obj)

BuiltFromHeaders(fields) ==
    \A i \in 1..Len(fields) : \E call \in ArgStrings \X ArgMaps : fields[i] = HeaderField(call)

\* C7: when every planned field comes from a call form_field_header(field_id,
\* title), the create request has one field per call, in the order of the
\* list, with that id, that title, type "header" and optional false.
C7_HeaderFieldsAreSent ==
    (CreateSent /\ BuiltFromHeaders(last.plan.fields)) =>
        /\ Len(SentFields) = Len(last.plan.fields)
        /\ \A i \in 1..Len(last.plan.fields) : \A call \in ArgStrings \X ArgMaps :
              (i <= Len(SentFields) /\ last.plan.fields[i] = HeaderField(call)) =>
                  SentFields[i] = [fieldId |-> [set |-> TRUE, v |-> call[1]],
                                   fieldTitle |-> call[2],
                                   fieldType |-> "header",
                                   fieldOptional |-> FALSE]

C7_Witness ==
    /\ CreateSent
    /\ BuiltFromHeaders(last.plan.fields)
    /\ Len(last.plan.fields) = 2
    /\ last.plan.fields[1] # last.plan.fields[2]

\* C8: form_field_header(field_id, title) returns an object with exactly the
\* attributes id = field_id, title = title, type = "header", optional = false.
C8_HeaderResult ==
    (fn.name = "form_field_header" /\ fn.decoded) =>
        /\ fn.set /\ ~fn.error
        /\ DOMAIN fn.result = {"id", "title", "type", "optional"}
        /\ fn.result["id"] = StringValue(fn.args.field_id.v)
        /\ fn.result["title"] = MapValue(fn.args.title.v)
        /\ fn.result["type"] = StringValue("header")
        /\ fn.result["optional"] = BoolValue(FALSE)

C8_Witness ==
    /\ fn.name = "form_field_header"
    /\ fn.set
    /\ fn.args.field_id.v = "xyz_purpose"
    /\ Cardinality(fn.args.title.v) = 2

\* C9: form_field_label(title) returns an object with exactly the attributes
\* title = the argument, type = "label", optional = false.
C9_LabelResult ==
    (fn.name = "form_field_label" /\ fn.decoded) =>
        /\ fn.set /\ ~fn.error
        /\ DOMAIN fn.result = {"title", "type", "optional"}
        /\ fn.result["title"] = StringValue(fn.args.title.v)
        /\ fn.result["type"] = StringValue("label")
        /\ fn.result["optional"] = BoolValue(FALSE)

C9_Witness ==
    /\ fn.name = "form_field_label"
    /\ fn.set
    /\ fn.args.title.v = "xyz_applicant"

\* the place in the request of the i-th planned field, when it has a title:
\* the number of planned fields with a title up to it
PlaceOf(fields, i) == Cardinality({k \in 1..i : HasTitle(fields[k])})

\* C10: a field of the create request carries an id exactly when the planned
\* field's id is not null, and the id it carries is the planned one; a field
\* whose id is null is sent without an id.
C10_FieldIdSentUnlessNull ==
    CreateSent =>
        \A i \in 1..Len(last.plan.fields) :
            HasTitle(last.plan.fields[i]) =>
                LET j == PlaceOf(last.plan.fields, i) IN
                /\ j <= Len(SentFields)
                /\ SentFields[j].fieldId.set = ~IsNull(last.plan.fields[i].id)
                /\ SentFields[j].fieldId.set =>
                      SentFields[j].fieldId.v = ValueString(last.plan.fields[i].id)

C10_Witness ==
    /\ CreateSent
    /\ Len(last.plan.fields) = 2
    /\ HasTitle(last.plan.fields[1]) /\ HasTitle(last.plan.fields[2])
    /\ IsNull(last.plan.fields[1].id)
    /\ last.plan.fields[2].id = StringValue("xyz_purpose")

\* C11: the optional flag of a field of the create request is the planned
\* value when that is set, and false when the planned optional is null or
\* unknown.
C11_OptionalSent ==
    CreateSent =>
        \A i \in 1..Len(last.plan.fields) :
            HasTitle(last.plan.fields[i]) =>
                LET j == PlaceOf(last.plan.fields, i)
                    optional == last.plan.fields[i].optional
                IN
                /\ j <= Len(SentFields)
                /\ optional.st = "known" => SentFields[j].fieldOptional = optional.v
                /\ optional.st \in {"null", "unknown"} => SentFields[j].fieldOptional = FALSE

C11_Witness ==
    /\ CreateSent
    /\ Len(last.plan.fields) = 2
    /\ HasTitle(last.plan.fields[1]) /\ HasTitle(last.plan.fields[2])
    /\ last.plan.fields[1].optional = BoolUnknown
    /\ last.plan.fields[2].optional = BoolNull

\* C12: the provider's type name is "remscontent", the form resource's type
\* name is that name followed by "_form", and the functions form_field_header
\* and form_field_label are registered.
C12_NamesResolve ==
    /\ prov.typeName # "" => prov.typeName = "remscontent"
    /\ prov.formTypeName # "" =>
          /\ prov.formTypeName = prov.typeName \o "_form"
          /\ prov.formTypeName = "remscontent_form"
    /\ prov.functions # <<>> =>
          {"form_field_header", "form_field_label"}
              \subseteq {prov.functions[i] : i \in 1..Len(prov.functions)}

C12_Witness ==
    /\ prov.typeName # ""
    /\ prov.formTypeName # ""
    /\ prov.functions # <<>>

\* the kinds of REMS content the provider is to manage
ContentKinds == {"form", "category", "license", "workflow", "catalogue item", "resource"}

\* the kind of content a registered resource manages
ResourceKind(constructor) ==
    CASE constructor = "NewCatalogueItemResource" -> "catalogue item"
      [] constructor = "NewCategoryResource" -> "category"
      [] constructor = "NewFormResource" -> "form"
      [] constructor = "NewLicenseResource" -> "license"
      [] constructor = "NewResourceResource" -> "resource"
      [] constructor = "NewWorkflowResource" -> "workflow"
      [] OTHER -> "none"

\* C13: the provider registers exactly one resource for each kind of REMS
\* content: none is missing, none is there twice.
C13_OneResourcePerKind ==
    prov.resources # <<>> =>
        /\ Len(prov.resources) = Cardinality(ContentKinds)
        /\ \A kind \in ContentKinds :
              Cardinality({i \in 1..Len(prov.resources) :
                              ResourceKind(prov.resources[i]) = kind}) = 1

C13_Witness == Len(prov.resources) > 0 /\ prov.typeName # ""

\* the provider's Configure has run and its configuration was decoded
ProviderConfigured == prov.configure.called /\ ~prov.configure.diagError

\* C14: Configure of the provider, for a configuration that decodes, builds
\* one client with the endpoint as host, the scheme https and the headers
\* x-rems-user-id = api_user and x-rems-api-key = api_key, and gives that
\* one client to resources and to data sources.
C14_ProviderBuildsOneClient ==
    ProviderConfigured =>
        LET c == prov.configure IN
        /\ c.resourceData.set /\ c.dataSourceData.set
        /\ c.resourceData = c.dataSourceData
        /\ c.resourceData.cfg.host = ValueString(c.config.endpoint)
        /\ c.resourceData.cfg.scheme = "https"
        /\ <<"x-rems-user-id", ValueString(c.config.api_user)>>
              \in c.resourceData.cfg.defaultHeader
        /\ <<"x-rems-api-key", ValueString(c.config.api_key)>>
              \in c.resourceData.cfg.defaultHeader
        /\ \A h \in c.resourceData.cfg.defaultHeader :
              /\ h[1] = "x-rems-user-id" => h[2] = ValueString(c.config.api_user)
              /\ h[1] = "x-rems-api-key" => h[2] = ValueString(c.config.api_key)

C14_Witness ==
    /\ ProviderConfigured
    /\ prov.configure.config.endpoint = StringValue("rems.somewhere.com")
    /\ prov.configure.config.api_user = StringValue("robot")
    /\ prov.configure.config.api_key = StringValue("key-2")

\* a planned field whose title is neither null nor unknown
Titled(field) == field.title.st = "known"

TitledPlace(fields, i) == Cardinality({k \in 1..i : Titled(fields[k])})

\* C15: the fields of the create request are the planned fields whose title
\* is neither null nor unknown, in their order; the others are left out,
\* with no diagnostic, and the state written after success has every
\* planned field.
C15_TitledFieldsSent ==
    CreateSent =>
        LET fields == last.plan.fields IN
        /\ Len(SentFields) = Cardinality({i \in 1..Len(fields) : Titled(fields[i])})
        /\ \A i \in 1..Len(fields) :
              (Titled(fields[i]) /\ TitledPlace(fields, i) <= Len(SentFields)) =>
                  /\ SentFields[TitledPlace(fields, i)].fieldTitle = fields[i].title.v
                  /\ SentFields[TitledPlace(fields, i)].fieldType
                        = ValueString(fields[i].type)
        /\ CreateSuccess =>
              /\ ~last.diagError
              /\ state.exists
              /\ state.model.fields = fields

C15_Witness ==
    /\ CreateSuccess
    /\ Len(last.plan.fields) = 2
    /\ IsUnknown(last.plan.fields[1].title)
    /\ Titled(last.plan.fields[2])

\* C16: a Create in which the plan, the fields list or a field's title fails
\* to decode returns with an error diagnostic, no request issued and no
\* state written.
C16_DecodeErrorAborts ==
    (last.op = "Create" /\ last.decode # "none") =>
        /\ last.diagError
        /\ last.requests = <<>>
        /\ last.response = NoResponse
        /\ ~last.stateSet
        /\ ~state.exists
        /\ ~rems.exists

C16_Witness ==
    /\ last.op = "Create"
    /\ last.decode = "title"
    /\ client # "nil"
    /\ Len(last.plan.fields) = 2

\* C17: when the create request is issued its command is whole: the
\* organization id is the planned one, the form title is set (the planned
\* title, or nil for a null title) and the list of fields is set, if empty.
C17_CommandAssembled ==
    CreateSent =>
        LET body == last.requests[1].body IN
        /\ body.organization.organizationId = ValueString(last.plan.organization_id)
        /\ body.formTitle.set
        /\ body.formTitle.nil = IsNull(last.plan.title)
        /\ ~body.formTitle.nil => body.formTitle.v = ValueString(last.plan.title)
        /\ body.formFields.set

C17_Witness ==
    /\ CreateSent
    /\ IsNull(last.plan.title)
    /\ last.plan.fields = <<>>
    /\ last.requests[1].body.formFields.v = <<>>

\* what a step of Configure does, by the provider data it is given
C18_ConfigureStep ==
    last'.op = "Configure" =>
        /\ last'.providerData = "nil" => (~last'.diagError /\ client' = client)
        /\ last'.providerData = "other" => (last'.diagError /\ client' = client)
        /\ last'.providerData \in {"client", "client2"} =>
              (~last'.diagError /\ client' = last'.providerData)

\* C18: Configure of the resource, given nil, returns without error and
\* leaves the client; given something that is no API client, adds an error
\* and leaves the client; given an API client, stores it without a diagnostic.
C18_ConfigureOutcomes == [][C18_ConfigureStep]_vars

C18_Witness ==
    /\ last.op = "Configure"
    /\ last.providerData = "other"
    /\ last.diagError
    /\ client = "client2"

\* C19: no Create issues its API call through a nil client, whatever calls
\* of Configure and Create came before.
C19_NoNilClient ==
    last.op = "Create" =>
        /\ ~last.panic
        /\ \A k \in 1..Len(last.requests) : last.requests[k].via # "nil"

\* what a step of a successful Update does
C20_UpdateStep ==
    (last'.op = "Update" /\ last'.stateSet) =>
        /\ state'.exists
        /\ state'.model = last'.plan
        /\ rems' = rems

\* C20: a successful Update leaves in state the id, organization_id, title
\* and fields of the plan, and leaves the form REMS holds as it was.
C20_UpdateWritesPlan == [][C20_UpdateStep]_vars

C20_Witness ==
    /\ last.op = "Update"
    /\ last.stateSet
    /\ rems.exists
    /\ state.model.title # StringValue(rems.form.formTitle.v)
    /\ Len(state.model.fields) # Len(rems.form.formFields.v)

\* what a step of Read does to state
C21_ReadStep ==
    last'.op = "Read" =>
        /\ state' = state
        /\ last'.stateSet => state'.model = last'.plan
        /\ last.op = "Read" => state' = state /\ rems' = rems

\* C21: Read leaves every attribute of state as it was, whatever REMS holds
\* (a form that differs from state, or no form at all), and so a Read after
\* a Read leaves what the first Read left.
C21_ReadIsNoOp == [][C21_ReadStep]_vars

C21_Witness ==
    /\ last.op = "Read"
    /\ last.stateSet
    /\ state.exists
    /\ ~rems.exists

\* what a step of Read or Update does to the id in state
C22_IdStep ==
    (state.exists /\ last'.op \in {"Read", "Update"}) =>
        /\ state'.exists
        /\ state'.model.id = state.model.id
        /\ last'.stateSet => last'.plan.id = state.model.id

\* C22: the id a successful Create has put in state is the id in state after
\* every Read and every Update that follows: the plan of an Update carries
\* the prior id, and Update copies it back.
C22_IdIsStable == [][C22_IdStep]_vars

C22_Witness ==
    /\ last.op = "Read"
    /\ last.stateSet
    /\ rems.exists
    /\ state.model.id = Int64Value(rems.id)
    /\ state.model.organization_id # StringValue(rems.form.organization.organizationId)

\* the values a plan may give to info and to placeholder
InfoValues == {StringNull, StringUnknown, StringValue("other")}

\* the plans that differ from `plan` in the info or placeholder of fields only
InfoVariants(plan) ==
    { [plan EXCEPT !.fields = [i \in 1..Len(plan.fields) |->
                                  [plan.fields[i] EXCEPT !.info = v[i][1],
                                                         !.placeholder = v[i][2]]]] :
        v \in [1..Len(plan.fields) -> InfoValues \X InfoValues] }

\* C23: the create request is the same for two plans that differ only in the
\* info or the placeholder of fields.
C23_InfoIsNotSent ==
    CreateSent =>
        \A other \in InfoVariants(last.plan) :
            CreateRequest(other).body = last.requests[1].body

C23_Witness ==
    /\ CreateSent
    /\ Len(last.plan.fields) = 2
    /\ HasTitle(last.plan.fields[1])
    /\ last.plan.fields[1].info = StringValue("i")
    /\ last.plan.fields[1].placeholder = StringValue("p")
    /\ last.plan.fields[2].info = StringNull
    /\ Cardinality(InfoVariants(last.plan)) > 1

\* the number an import identifier stands for
ImportedNumber(id) ==
    CASE id = "1" -> Int64Value(1)
      [] id = "2" -> Int64Value(2)
      [] OTHER -> Int64Null

\* C24: after a successful ImportState the id in state is the identifier
\* given to the import.
C24_ImportedIdIsIdentifier ==
    (last.op = "ImportState" /\ last.stateSet /\ ~last.diagError) =>
        /\ state.exists
        /\ state.model.id = ImportedNumber(last.importId)

\* an ImportState that left a state
C24_ImportSucceeded == last.op = "ImportState" /\ last.stateSet

\* C25: a run of form_field_header or form_field_label whose arguments could
\* not be read returns a function error and sets no result.
C25_ArgumentErrorSetsNothing ==
    /\ (fn.name # "none" /\ ~fn.decoded) =>
          (fn.error /\ ~fn.set /\ fn.result = NoObject)
    /\ (fnPrev.name # "none" /\ ~fnPrev.decoded) =>
          (fnPrev.error /\ ~fnPrev.set /\ fnPrev.result = NoObject)

C25_Witness ==
    /\ fnPrev.name = "form_field_header" /\ ~fnPrev.decoded
    /\ fn.name = "form_field_label" /\ ~fn.decoded
    /\ fnPrev.args.field_id = GoString("xyz_applicant")

\* C26: when Config.Get of the provider's Configure ends with an error
\* diagnostic, neither the resource data nor the data-source data is set.
C26_NoClientOnConfigError ==
    (prov.configure.called /\ prov.configure.diagError) =>
        /\ ~prov.configure.resourceData.set
        /\ ~prov.configure.dataSourceData.set
        /\ prov.configure.resourceData = NoData
        /\ prov.configure.dataSourceData = NoData

C26_Witness ==
    /\ prov.configure.called
    /\ prov.configure.diagError
    /\ prov.resources # <<>>

\* C27: the create request is issued under the background context, not the
\* context of the operation: when that context is cancelled after the request
\* has been sent, the request is not given up, and REMS answers it.
C27_RequestOutlivesContext ==
    /\ flight.phase # "idle" => flight.requestCtx = "background"
    /\ (last.op = "Create" /\ last.ctx = "cancelled") =>
          /\ ~last.cancelled
          /\ last.response \in ApiResponses

C27_Witness ==
    /\ last.op = "Create"
    /\ last.ctx = "cancelled"
    /\ last.response.kind = "success"
    /\ state.exists
    /\ rems.exists
    /\ rems.form = last.requests[1].body

====
